---- MODULE Spec2Model ----
(***************************************************************************)
(* The in-process event layer of mingkwan-api: the in-memory bus           *)
(* (InMemPubSub), the bus-tier publisher (LowImportancePublisher, both     *)
(* revisions kept in the repository), the three subscriber loops started   *)
(* by StartAllSubscribers, and callers of the bus's public Subscribe /     *)
(* Unsubscribe API; the constructor of the bus singleton (NewInMemoryBus); *)
(* and the queue tier (HighImportancePublisher over AsynqClientImpl).      *)
(*                                                                         *)
(* Granularity.  SubscribeEvent and UnsubscribeEvent run wholly under      *)
(* p.mu.Lock(); nothing else can observe the registry while the writer     *)
(* holds the lock, so each is two steps: the Lock() request (which, as in  *)
(* Go's sync.RWMutex, keeps new readers out) and the critical section.     *)
(* PublishEvent holds p.mu.RLock() over its range loop; every non-blocking *)
(* send of the loop is a step of its own, so that subscriber loops,        *)
(* receivers and other publishers interleave with a fan-out in flight.     *)
(***************************************************************************)
EXTENDS Integers, Sequences, FiniteSets, TLC

\* ------------------------------------------------------------------ catalog
UserCreatedInMemoryEvent == "user.created.inmemory"
UserUpdatedInMemoryEvent == "user.updated.inmemory"
UserDeletedInMemoryEvent == "user.deleted.inmemory"

\* The topics of the catalog (event_types.go).
Topics == {UserCreatedInMemoryEvent, UserUpdatedInMemoryEvent, UserDeletedInMemoryEvent}

\* A destination string that is no topic of the catalog.  Topic is a plain
\* string type, so the bus itself registers subscribers under any string.
OtherTopic == "user.archived.inmemory"

BusTopics == Topics \cup {OtherTopic}

\* Runtime types a payload (interface{}) can have.
PayloadTypes == {"UserCreatedPayload", "UserUpdatedPayload", "UserDeletedPayload"}

\* The payload shape declared for a topic of the catalog.
DeclaredShape(topic) ==
    CASE topic = UserCreatedInMemoryEvent -> "UserCreatedPayload"
      [] topic = UserUpdatedInMemoryEvent -> "UserUpdatedPayload"
      [] topic = UserDeletedInMemoryEvent -> "UserDeletedPayload"
      [] OTHER -> "none"

\* The task names of the catalog (event_types.go).
SendWelcomeEmailTaskName == "user:send_welcome_email"
UserDeletedHighImportance == "user:deleted_high_importance"

TaskNames == {SendWelcomeEmailTaskName, UserDeletedHighImportance}

\* A destination string that is no task name of the catalog.
OtherTask == "user:send_sms"

\* asynq.Queue("critical")
CriticalQueue == "critical"

\* asynq.MaxRetry(3)
MaxRetry == 3

\* The zero value a receive from a closed, drained channel yields.
Nil == [type |-> "nil", id |-> 0]

\* ------------------------------------------------------------------ bounds
\* make(chan interface{}, 10)
Cap == 10

\* Publish calls made in one run of Spec.
MaxCalls == 2

\* Publish calls made in one run of ApiSpec.
MaxApiCalls == 1

\* Publish calls made in one run of BurstSpec (enough to overflow an inbox,
\* drain it and deliver again).
MaxBurst == 12

\* Subscriptions made through the public API besides the three loops'.
MaxClientSubs == 2

\* Calls of NewInMemoryBus each goroutine makes in one run of CtorSpec.
MaxCtorCalls == 2

\* Queue-tier Publish calls made in one run of QueueSpec.
MaxQueueCalls == 3

\* PublishEvent calls made on the bus directly in one run of RawSpec.
MaxRawCalls == 3

\* Publish calls to the topic of the hung loop in one run of IndepSpec
\* (one payload taken by the loop, ten to fill its inbox).
MaxHungCalls == 11

\* Publish calls to the other topic that follow them in IndepSpec.
MaxFreeCalls == 2
MaxCreateCalls == 3
MaxStopCalls == 11

\* ------------------------------------------------------------------ processes
\* Goroutines calling LowImportancePublisher.Publish.
Pubs == {"p1", "p2"}

\* Goroutines calling SubscribeEvent / UnsubscribeEvent / receiving directly.
Clients == {"c1"}

\* Goroutines calling NewInMemoryBus.
Makers == {"m1", "m2", "m3"}

\* Goroutines calling HighImportancePublisher.Publish.
HighPubs == {"h1", "h2"}

\* Request goroutines calling CreateUser, and the emails they register.
Creators == {"u1", "u2"}
Emails == {"a@example.com", "b@example.com"}

\* The two revisions of LowImportancePublisher.Publish in the repository.
Revisions == {"log", "zap"}

ChanIds == 1 .. (Cardinality(Topics) + MaxClientSubs)

VARIABLES
    subscribers,  \* InMemPubSub.subscribers: topic -> sequence of channels
    chans,        \* channel -> [buf: buffered payloads, closed: BOOLEAN]
    made,         \* number of channels allocated by make(chan ...) so far
    owner,        \* channel -> the goroutine that got it from SubscribeEvent
    readers,      \* publishers holding p.mu.RLock()
    lockWait,     \* goroutines that have called p.mu.Lock() and not yet returned
    pub,          \* publisher -> its current / last Publish call
    loop,         \* topic -> state of the subscriber loop of that topic
    client,       \* client -> its pending / last bus call
    ctxDone,      \* the application context (appCtx) is cancelled
    calls,        \* numbered Publish calls made so far; numbers the payloads
    sent,         \* history: channel -> ids of the payloads it accepted, in order
    dropped,      \* history: <<channel, id>> of every send dropped with a log line
    hb,           \* history: <<a, b>> when call a had returned before call b began
    panicked,     \* a send on a closed channel or a second close happened
    globalPubSub, \* the package variable globalPubSub: 0 is nil, else an instance
    buses,        \* number of InMemPubSub instances allocated so far
    ctor,         \* goroutine -> its current / last call of NewInMemoryBus
    requests,     \* the enqueue requests sent to the asynq client, in order
    hpub,         \* queue-tier publisher -> its current / last Publish call
    users,        \* the user collection: <<email, id>> of every inserted document
    svc,          \* request goroutine -> its current / last call of CreateUser
    ucalls        \* number of CreateUser calls made so far; numbers the users

\* The package-level singleton pointer and the callers of NewInMemoryBus.
ctorVars == <<globalPubSub, buses, ctor>>

\* The queue tier: HighImportancePublisher over AsynqClientImpl.
queueVars == <<requests, hpub>>

\* The user collection and the callers of CreateUser.
userVars == <<users, svc, ucalls>>

vars == <<subscribers, chans, made, owner, readers, lockWait, pub, loop, client,
          ctxDone, calls, sent, dropped, hb, panicked, ctorVars, queueVars, userVars>>

Range(s) == {s[i] : i \in 1 .. Len(s)}

Count(x, s) == Cardinality({i \in 1 .. Len(s) : s[i] = x})

\* ------------------------------------------------------------------ publisher
\* Faulty variant of PublishSwitchLog: the switch without its default case.
PublishSwitchLogNoDefault(topic, ptype) ==
    IF topic \in Topics
    THEN IF ptype = DeclaredShape(topic) THEN "nil" ELSE "InvalidPayloadType"
    ELSE "nil"

\* The switch of LowImportancePublisher.Publish, revision with log.Printf.
PublishSwitchLog(topic, ptype) ==
    IF topic \in Topics
    THEN IF ptype = DeclaredShape(topic) THEN "nil" ELSE "InvalidPayloadType"
    ELSE "UnsupportedDestination"

\* The switch of LowImportancePublisher.Publish, revision with utils.Logger:
\* its only case is UserCreatedInMemoryEvent.
PublishSwitchZap(topic, ptype) ==
    IF topic = UserCreatedInMemoryEvent
    THEN IF ptype = "UserCreatedPayload" THEN "nil" ELSE "InvalidPayloadType"
    ELSE "UnsupportedDestination"

PublishSwitch(rev, topic, ptype) ==
    IF rev = "log" THEN PublishSwitchLog(topic, ptype) ELSE PublishSwitchZap(topic, ptype)

\* ------------------------------------------------------------------ mutex
\* p.mu.RLock() returns at once unless a writer holds or awaits the lock.
CanRLock == lockWait = {}

\* Faulty variant of CanLock: the writer takes the lock in shared mode.
CanLockShared == TRUE

\* p.mu.Lock() returns once no reader holds the lock (writers' critical
\* sections are single steps, so no other writer holds it).
CanLock == readers = {}

\* ------------------------------------------------------------------ channel
\* Faulty variant of HasRoom: capacity off by one.
HasRoomOffByOne(c) == Len(chans[c].buf) <= Cap

\* Faulty variant of HasRoom: one buffer budget shared by all inboxes.
HasRoomShared(c) == \A d \in ChanIds : Len(chans[d].buf) < Cap

\* A buffered channel accepts a send without blocking while len < cap.
HasRoom(c) == Len(chans[c].buf) < Cap

\* Faulty variant of TrySend: the inbox is a stack, the newest payload is read first.
TrySendFront(c, payload) ==
    IF Len(chans[c].buf) < Cap THEN [chans[c] EXCEPT !.buf = <<payload>> \o @] ELSE chans[c]

\* Faulty variant of TrySend: the accepted item replaces what is buffered.
TrySendReplace(c, payload) ==
    IF Len(chans[c].buf) < Cap THEN [chans[c] EXCEPT !.buf = <<payload>>] ELSE chans[c]

\* select { case sub <- payload: default: } on an open channel.
TrySend(c, payload) ==
    IF HasRoom(c) THEN [chans[c] EXCEPT !.buf = Append(@, payload)] ELSE chans[c]

\* Faulty variant of NextIdx: the default case returns instead of going on.
NextIdxStopOnFull(idx, subs, accepted) == IF accepted THEN idx + 1 ELSE Len(subs) + 1

\* Faulty variant of NextIdx: a blocking send, repeated until the inbox takes it.
NextIdxRetryOnFull(idx, subs, accepted) == IF accepted THEN idx + 1 ELSE idx

\* The range loop goes on to the next subscriber after either select case.
NextIdx(idx, subs, accepted) == idx + 1

\* ------------------------------------------------------------------ registry
\* The index at which `for i, sub := range subs` finds ch; 0 when it does not.
IndexOf(subs, ch) ==
    IF ch \in Range(subs)
    THEN CHOOSE i \in 1 .. Len(subs) : subs[i] = ch /\ \A j \in 1 .. i - 1 : subs[j] # ch
    ELSE 0

\* Faulty variant of RemoveAt: subs[:i] alone, the entries behind i are lost.
RemoveAtTruncate(subs, i) == SubSeq(subs, 1, i - 1)

\* append(subs[:i], subs[i+1:]...)
RemoveAt(subs, i) == SubSeq(subs, 1, i - 1) \o SubSeq(subs, i + 1, Len(subs))

IdlePub == [pc |-> "idle", topic |-> "", payload |-> Nil, idx |-> 0, err |-> "none"]

IdleClient == [pc |-> "idle", topic |-> "", ch |-> 0, res |-> "none"]

\* A goroutine outside NewInMemoryBus; ret is what its last call returned
\* (0: no call yet), n the number of calls it has made.
IdleMaker == [pc |-> "idle", ret |-> 0, n |-> 0]

\* A goroutine outside HighImportancePublisher.Publish.
IdleHighPub == [pc |-> "idle", taskType |-> "", id |-> 0, reply |-> "none", err |-> "none"]

IdleCreator == [pc |-> "idle", email |-> "", id |-> 0, out |-> "none", err |-> "none", reply |-> "none"]

Init ==
    /\ subscribers = [t \in BusTopics |-> <<>>]
    /\ chans = [c \in ChanIds |-> [buf |-> <<>>, closed |-> FALSE]]
    /\ made = 0
    /\ owner = [c \in ChanIds |-> "none"]
    /\ readers = {}
    /\ lockWait = {}
    /\ pub = [p \in Pubs |-> IdlePub]
    /\ loop = [t \in Topics |-> [state |-> "Starting", ch |-> 0, data |-> Nil]]
    /\ client = [c \in Clients |-> IdleClient]
    /\ ctxDone = FALSE
    /\ calls = 0
    /\ sent = [c \in ChanIds |-> <<>>]
    /\ dropped = {}
    /\ hb = {}
    /\ panicked = FALSE
    /\ globalPubSub = 0
    /\ buses = 0
    /\ ctor = [g \in Makers |-> IdleMaker]
    /\ requests = <<>>
    /\ hpub = [h \in HighPubs |-> IdleHighPub]
    /\ users = {}
    /\ svc = [u \in Creators |-> IdleCreator]
    /\ ucalls = 0

\* The numbered calls that are not in their fan-out, i.e. have returned.
Returned == {a \in 1 .. calls : \A q \in Pubs : ~(pub[q].pc = "fanout" /\ pub[q].payload.id = a)}

\* ------------------------------------------------------------------ Publish
\* LowImportancePublisher.Publish up to and including PublishEvent's RLock:
\* the switch rejects the call, or the fan-out starts.  Payloads carry the
\* number of their call; number 0 is a payload the histories do not trace.
PublishCall(p, rev, topic, ptype, id) ==
    /\ pub[p].pc = "idle"
    /\ calls' = id
    /\ hb' = IF id = 0 THEN hb ELSE hb \cup {<<a, id>> : a \in Returned}
    /\ LET e == PublishSwitch(rev, topic, ptype)
           payload == [type |-> ptype, id |-> id]
       IN IF e # "nil"
          THEN /\ pub' = [pub EXCEPT ![p] = [IdlePub EXCEPT !.topic = topic, !.err = e]]
               /\ UNCHANGED readers
          ELSE /\ CanRLock
               /\ readers' = readers \cup {p}
               /\ pub' = [pub EXCEPT ![p] = [pc |-> "fanout", topic |-> topic, payload |-> payload,
                                             idx |-> 1, err |-> "pending"]]
    /\ UNCHANGED <<ctorVars, queueVars, userVars>>
    /\ UNCHANGED <<subscribers, chans, made, owner, lockWait, loop, client, ctxDone,
                   sent, dropped, panicked>>

\* InMemPubSub.PublishEvent called on the bus directly, without the
\* publisher's switch in front: any payload type goes to any topic.
BusPublishCall(p, topic, ptype, id) ==
    /\ pub[p].pc = "idle"
    /\ CanRLock
    /\ calls' = id
    /\ hb' = IF id = 0 THEN hb ELSE hb \cup {<<a, id>> : a \in Returned}
    /\ readers' = readers \cup {p}
    /\ pub' = [pub EXCEPT ![p] = [pc |-> "fanout", topic |-> topic,
                                  payload |-> [type |-> ptype, id |-> id],
                                  idx |-> 1, err |-> "pending"]]
    /\ UNCHANGED <<ctorVars, queueVars, userVars>>
    /\ UNCHANGED <<subscribers, chans, made, owner, lockWait, loop, client, ctxDone,
                   sent, dropped, panicked>>

\* One iteration of `for _, sub := range p.subscribers[topic]`.
PublishSend(p) ==
    /\ pub[p].pc = "fanout"
    /\ pub[p].idx <= Len(subscribers[pub[p].topic])
    /\ LET subs == subscribers[pub[p].topic]
           c == subs[pub[p].idx]
           payload == pub[p].payload
       IN IF chans[c].closed
          THEN /\ panicked' = TRUE
               /\ pub' = [pub EXCEPT ![p].idx = @ + 1]
               /\ UNCHANGED <<chans, sent, dropped>>
          ELSE /\ chans' = [chans EXCEPT ![c] = TrySend(c, payload)]
               /\ sent' = IF chans'[c] # chans[c] /\ payload.id # 0
                          THEN [sent EXCEPT ![c] = Append(@, payload.id)] ELSE sent
               /\ dropped' = IF chans'[c] # chans[c] \/ payload.id = 0
                             THEN dropped ELSE dropped \cup {<<c, payload.id>>}
               /\ pub' = [pub EXCEPT ![p].idx = NextIdx(@, subs, chans'[c] # chans[c])]
               /\ UNCHANGED panicked
    /\ UNCHANGED <<ctorVars, queueVars, userVars>>
    /\ UNCHANGED <<subscribers, made, owner, readers, lockWait, loop, client, ctxDone,
                   calls, hb>>

\* The range loop is over: deferred RUnlock, Publish returns nil.
PublishReturn(p) ==
    /\ pub[p].pc = "fanout"
    /\ pub[p].idx > Len(subscribers[pub[p].topic])
    /\ readers' = readers \ {p}
    /\ pub' = [pub EXCEPT ![p].pc = "idle", ![p].idx = 0, ![p].err = "nil"]
    /\ UNCHANGED <<ctorVars, queueVars, userVars>>
    /\ UNCHANGED <<subscribers, chans, made, owner, lockWait, loop, client, ctxDone,
                   calls, sent, dropped, hb, panicked>>

\* ------------------------------------------------------------------ Subscribe
\* Faulty variant of SubscribeEvent: the new channel replaces the topic's slice.
SubscribeEventReplace(topic, who) ==
    /\ made < Cardinality(ChanIds)
    /\ made' = made + 1
    /\ subscribers' = [subscribers EXCEPT ![topic] = <<made + 1>>]
    /\ owner' = [owner EXCEPT ![made + 1] = who]
    /\ UNCHANGED chans

\* The critical section of SubscribeEvent: a fresh channel appended to the topic.
SubscribeEvent(topic, who) ==
    /\ made < Cardinality(ChanIds)
    /\ made' = made + 1
    /\ subscribers' = [subscribers EXCEPT ![topic] = Append(@, made + 1)]
    /\ owner' = [owner EXCEPT ![made + 1] = who]
    /\ UNCHANGED chans

\* Faulty variant of UnsubscribeEvent: close(ch) moved out of the `if sub == ch`.
UnsubscribeEventCloseAlways(topic, ch) ==
    LET subs == subscribers[topic]
        i == IndexOf(subs, ch)
    IN /\ subscribers' = IF i = 0 THEN subscribers
                         ELSE [subscribers EXCEPT ![topic] = RemoveAt(subs, i)]
       /\ IF chans[ch].closed
          THEN panicked' = TRUE /\ UNCHANGED chans
          ELSE chans' = [chans EXCEPT ![ch].closed = TRUE] /\ UNCHANGED panicked

\* Faulty variant of UnsubscribeEvent: the inbox is removed but not closed.
UnsubscribeEventNoClose(topic, ch) ==
    LET subs == subscribers[topic]
        i == IndexOf(subs, ch)
    IN /\ subscribers' = IF i = 0 THEN subscribers
                         ELSE [subscribers EXCEPT ![topic] = RemoveAt(subs, i)]
       /\ UNCHANGED <<chans, panicked>>

\* Faulty variant of UnsubscribeEvent: the inbox is closed but stays registered.
UnsubscribeEventCloseOnly(topic, ch) ==
    LET subs == subscribers[topic]
        i == IndexOf(subs, ch)
    IN IF i = 0
       THEN UNCHANGED <<subscribers, chans, panicked>>
       ELSE /\ UNCHANGED subscribers
            /\ IF chans[ch].closed
               THEN panicked' = TRUE /\ UNCHANGED chans
               ELSE chans' = [chans EXCEPT ![ch].closed = TRUE] /\ UNCHANGED panicked

\* The critical section of UnsubscribeEvent.
UnsubscribeEvent(topic, ch) ==
    LET subs == subscribers[topic]
        i == IndexOf(subs, ch)
    IN IF i = 0
       THEN UNCHANGED <<subscribers, chans, panicked>>
       ELSE /\ subscribers' = [subscribers EXCEPT ![topic] = RemoveAt(subs, i)]
            /\ IF chans[ch].closed
               THEN panicked' = TRUE /\ UNCHANGED chans
               ELSE chans' = [chans EXCEPT ![ch].closed = TRUE] /\ UNCHANGED panicked

\* ------------------------------------------------------------------ loops
\* go s.listenToUser...Events(ctx): the goroutine calls SubscribeEvent.
LoopLock(t) ==
    /\ loop[t].state = "Starting"
    /\ t \notin lockWait
    /\ lockWait' = lockWait \cup {t}
    /\ UNCHANGED <<ctorVars, queueVars, userVars>>
    /\ UNCHANGED <<subscribers, chans, made, owner, readers, pub, loop, client, ctxDone,
                   calls, sent, dropped, hb, panicked>>

LoopSubscribe(t) ==
    /\ loop[t].state = "Starting"
    /\ t \in lockWait
    /\ CanLock
    /\ SubscribeEvent(t, t)
    /\ lockWait' = lockWait \ {t}
    /\ loop' = [loop EXCEPT ![t].state = "Listening", ![t].ch = made + 1]
    /\ UNCHANGED <<ctorVars, queueVars, userVars>>
    /\ UNCHANGED <<readers, pub, client, ctxDone, calls, sent, dropped, hb, panicked>>

\* Faulty variant of SelectReady: a select without the ctx.Done() case.
SelectReadyNoDone(t) ==
    IF chans[loop[t].ch].buf # <<>> \/ chans[loop[t].ch].closed THEN {"recv"} ELSE {}

\* The cases of the loop's select that can proceed.
SelectReady(t) ==
    (IF chans[loop[t].ch].buf # <<>> \/ chans[loop[t].ch].closed THEN {"recv"} ELSE {})
    \cup (IF ctxDone THEN {"done"} ELSE {})

\* Faulty variant of LoopReceive: the payload is used without the type assertion.
LoopReceiveUnchecked(t) ==
    /\ loop[t].state = "Listening"
    /\ "recv" \in SelectReady(t)
    /\ LET c == loop[t].ch
           eventData == IF chans[c].buf # <<>> THEN Head(chans[c].buf) ELSE Nil
       IN /\ chans' = IF chans[c].buf # <<>>
                      THEN [chans EXCEPT ![c].buf = Tail(@)] ELSE chans
          /\ loop' = [loop EXCEPT ![t].state = "Processing", ![t].data = eventData]
    /\ UNCHANGED <<ctorVars, queueVars, userVars>>
    /\ UNCHANGED <<subscribers, made, owner, readers, lockWait, pub, client, ctxDone,
                   calls, sent, dropped, hb, panicked>>

\* Faulty variant of LoopReceive: the goroutine returns on end-of-stream.
LoopReceiveExitOnNil(t) ==
    /\ loop[t].state = "Listening"
    /\ "recv" \in SelectReady(t)
    /\ LET c == loop[t].ch
           eventData == IF chans[c].buf # <<>> THEN Head(chans[c].buf) ELSE Nil
       IN /\ chans' = IF chans[c].buf # <<>>
                      THEN [chans EXCEPT ![c].buf = Tail(@)] ELSE chans
          /\ loop' = IF eventData.type = DeclaredShape(t)
                     THEN [loop EXCEPT ![t].state = "Processing", ![t].data = eventData]
                     ELSE IF eventData = Nil
                     THEN [loop EXCEPT ![t].state = "Stopped"]
                     ELSE loop
    /\ UNCHANGED <<ctorVars, queueVars, userVars>>
    /\ UNCHANGED <<subscribers, made, owner, readers, lockWait, pub, client, ctxDone,
                   calls, sent, dropped, hb, panicked>>

\* case eventData := <-ch, with the type assertion that follows it.
LoopReceive(t) ==
    /\ loop[t].state = "Listening"
    /\ "recv" \in SelectReady(t)
    /\ LET c == loop[t].ch
           eventData == IF chans[c].buf # <<>> THEN Head(chans[c].buf) ELSE Nil
       IN /\ chans' = IF chans[c].buf # <<>>
                      THEN [chans EXCEPT ![c].buf = Tail(@)] ELSE chans
          /\ loop' = IF eventData.type = DeclaredShape(t)
                     THEN [loop EXCEPT ![t].state = "Processing", ![t].data = eventData]
                     ELSE loop
    /\ UNCHANGED <<ctorVars, queueVars, userVars>>
    /\ UNCHANGED <<subscribers, made, owner, readers, lockWait, pub, client, ctxDone,
                   calls, sent, dropped, hb, panicked>>

\* Faulty variant of LoopFinish: the goroutine starts over and subscribes again.
LoopFinishRestart(t) ==
    /\ loop[t].state = "Processing"
    /\ loop' = [loop EXCEPT ![t].state = "Starting", ![t].data = Nil]
    /\ UNCHANGED <<ctorVars, queueVars, userVars>>
    /\ UNCHANGED <<subscribers, chans, made, owner, readers, lockWait, pub, client,
                   ctxDone, calls, sent, dropped, hb, panicked>>

\* time.Sleep(50 * time.Millisecond) is over; back to the select.
LoopFinish(t) ==
    /\ loop[t].state = "Processing"
    /\ loop' = [loop EXCEPT ![t].state = "Listening", ![t].data = Nil]
    /\ UNCHANGED <<ctorVars, queueVars, userVars>>
    /\ UNCHANGED <<subscribers, chans, made, owner, readers, lockWait, pub, client,
                   ctxDone, calls, sent, dropped, hb, panicked>>

\* Faulty variant of LoopStop: cancellation interrupts the side effect.
LoopStopAnywhere(t) ==
    /\ loop[t].state \in {"Listening", "Processing"}
    /\ ctxDone
    /\ loop' = [loop EXCEPT ![t].state = "Stopped"]
    /\ UNCHANGED <<ctorVars, queueVars, userVars>>
    /\ UNCHANGED <<subscribers, chans, made, owner, readers, lockWait, pub, client,
                   ctxDone, calls, sent, dropped, hb, panicked>>

\* Faulty variant of LoopStop: the loop unsubscribes its inbox on the way out.
LoopStopUnsubscribes(t) ==
    /\ loop[t].state = "Listening"
    /\ "done" \in SelectReady(t)
    /\ loop' = [loop EXCEPT ![t].state = "Stopped"]
    /\ subscribers' = [subscribers EXCEPT ![t] = SelectSeq(@, LAMBDA x : x # loop[t].ch)]
    /\ chans' = [chans EXCEPT ![loop[t].ch].closed = TRUE]
    /\ UNCHANGED <<ctorVars, queueVars, userVars>>
    /\ UNCHANGED <<made, owner, readers, lockWait, pub, client,
                   ctxDone, calls, sent, dropped, hb, panicked>>

\* case <-ctx.Done(): return
LoopStop(t) ==
    /\ loop[t].state = "Listening"
    /\ "done" \in SelectReady(t)
    /\ loop' = [loop EXCEPT ![t].state = "Stopped"]
    /\ UNCHANGED <<ctorVars, queueVars, userVars>>
    /\ UNCHANGED <<subscribers, chans, made, owner, readers, lockWait, pub, client,
                   ctxDone, calls, sent, dropped, hb, panicked>>

\* main: appCancel()
Cancel ==
    /\ ~ctxDone
    /\ ctxDone' = TRUE
    /\ UNCHANGED <<ctorVars, queueVars, userVars>>
    /\ UNCHANGED <<subscribers, chans, made, owner, readers, lockWait, pub, loop, client,
                   calls, sent, dropped, hb, panicked>>

\* ------------------------------------------------------------------ clients
\* A goroutine calls bus.SubscribeEvent(topic): the Lock() request.
ClientCallSubscribe(c, topic) ==
    /\ client[c].pc = "idle"
    /\ made < Cardinality(ChanIds)
    /\ client' = [client EXCEPT ![c] = [pc |-> "subscribe", topic |-> topic, ch |-> 0,
                                        res |-> "none"]]
    /\ lockWait' = lockWait \cup {c}
    /\ UNCHANGED <<ctorVars, queueVars, userVars>>
    /\ UNCHANGED <<subscribers, chans, made, owner, readers, pub, loop, ctxDone,
                   calls, sent, dropped, hb, panicked>>

ClientSubscribe(c) ==
    /\ client[c].pc = "subscribe"
    /\ CanLock
    /\ SubscribeEvent(client[c].topic, c)
    /\ lockWait' = lockWait \ {c}
    /\ client' = [client EXCEPT ![c].pc = "idle", ![c].ch = made + 1, ![c].res = "subscribed"]
    /\ UNCHANGED <<ctorVars, queueVars, userVars>>
    /\ UNCHANGED <<readers, pub, loop, ctxDone, calls, sent, dropped, hb, panicked>>

\* A goroutine calls bus.UnsubscribeEvent(topic, ch): the Lock() request.
ClientCallUnsubscribe(c, topic, ch) ==
    /\ client[c].pc = "idle"
    /\ ch \in 1 .. made
    /\ client' = [client EXCEPT ![c] = [pc |-> "unsubscribe", topic |-> topic, ch |-> ch,
                                        res |-> "none"]]
    /\ lockWait' = lockWait \cup {c}
    /\ UNCHANGED <<ctorVars, queueVars, userVars>>
    /\ UNCHANGED <<subscribers, chans, made, owner, readers, pub, loop, ctxDone,
                   calls, sent, dropped, hb, panicked>>

\* res records whether the range loop found the channel.
ClientUnsubscribe(c) ==
    /\ client[c].pc = "unsubscribe"
    /\ CanLock
    /\ UnsubscribeEvent(client[c].topic, client[c].ch)
    /\ lockWait' = lockWait \ {c}
    /\ client' = [client EXCEPT ![c].pc = "idle",
                                ![c].res = IF client[c].ch \in Range(subscribers[client[c].topic])
                                           THEN "removed" ELSE "absent"]
    /\ UNCHANGED <<ctorVars, queueVars, userVars>>
    /\ UNCHANGED <<made, owner, readers, pub, loop, ctxDone, calls, sent, dropped, hb>>

\* A goroutine holding a channel it got from SubscribeEvent receives from it.
ClientReceive(ch) ==
    /\ owner[ch] \in Clients
    /\ chans[ch].buf # <<>>
    /\ chans' = [chans EXCEPT ![ch].buf = Tail(@)]
    /\ UNCHANGED <<ctorVars, queueVars, userVars>>
    /\ UNCHANGED <<subscribers, made, owner, readers, lockWait, pub, loop, client,
                   ctxDone, calls, sent, dropped, hb, panicked>>

\* The holder of a channel receives from it after it was closed and drained:
\* the receive returns at once with the zero value (end-of-stream).
ClientReceiveClosed(ch) ==
    /\ owner[ch] \in Clients
    /\ client[owner[ch]].pc = "idle"
    /\ chans[ch].closed
    /\ chans[ch].buf = <<>>
    /\ client' = [client EXCEPT ![owner[ch]].ch = ch, ![owner[ch]].res = "eos"]
    /\ UNCHANGED <<ctorVars, queueVars, userVars>>
    /\ UNCHANGED <<subscribers, chans, made, owner, readers, lockWait, pub, loop,
                   ctxDone, calls, sent, dropped, hb, panicked>>

\* ------------------------------------------------------------------ NewInMemoryBus
\* The 15 variables of the bus, its publishers, loops and clients.
busVars == <<subscribers, chans, made, owner, readers, lockWait, pub, loop, client,
             ctxDone, calls, sent, dropped, hb, panicked>>

\* `if globalPubSub == nil`: the unsynchronised read of the package variable.
CtorCheck(g) ==
    /\ ctor[g].pc = "idle"
    /\ ctor' = [ctor EXCEPT ![g].pc = IF globalPubSub = 0 THEN "create" ELSE "return",
                            ![g].n = @ + 1]
    /\ UNCHANGED <<globalPubSub, buses, busVars, queueVars, userVars>>

\* globalPubSub = &InMemPubSub{...}: a new instance, stored without a lock.
CtorCreate(g) ==
    /\ ctor[g].pc = "create"
    /\ buses' = buses + 1
    /\ globalPubSub' = buses + 1
    /\ ctor' = [ctor EXCEPT ![g].pc = "return"]
    /\ UNCHANGED <<busVars, queueVars, userVars>>

\* return globalPubSub: the second unsynchronised read.
CtorReturn(g) ==
    /\ ctor[g].pc = "return"
    /\ ctor' = [ctor EXCEPT ![g].pc = "idle", ![g].ret = globalPubSub]
    /\ UNCHANGED <<globalPubSub, buses, busVars, queueVars, userVars>>

\* ------------------------------------------------------------------ queue tier
\* Faulty variant of NewTask: the task is built without options, so asynq
\* applies its defaults.
NewTaskDefaults(taskType, id) ==
    [type |-> taskType, id |-> id, queue |-> "default", maxRetry |-> 25]

\* asynq.NewTask(taskType, []byte(fmt.Sprintf("%v", payload)),
\*               asynq.Queue("critical"), asynq.MaxRetry(3))
NewTask(taskType, id) ==
    [type |-> taskType, id |-> id, queue |-> CriticalQueue, maxRetry |-> MaxRetry]

\* Faulty variant of WrapError: the error of Client.Enqueue is only logged.
WrapErrorSwallowed(reply) == "nil"

\* What EnqueueTask and then Publish make of the answer of Client.Enqueue:
\* both wrap a non-nil error with fmt.Errorf("...: %w", err) and pass nil on.
WrapError(reply) == IF reply = "ok" THEN "nil" ELSE "EnqueueFailed"

\* HighImportancePublisher.Publish calls EnqueueTask, which builds the task
\* and hands it to a.Client.Enqueue.  Calls are numbered by id.
HighPublishCall(h, taskType, id) ==
    /\ hpub[h].pc = "idle"
    /\ requests' = Append(requests, NewTask(taskType, id))
    /\ hpub' = [hpub EXCEPT ![h] = [pc |-> "enqueue", taskType |-> taskType, id |-> id,
                                    reply |-> "none", err |-> "pending"]]
    /\ UNCHANGED <<busVars, ctorVars, userVars>>

\* a.Client.Enqueue answers (reply "ok": info, nil; otherwise an error);
\* EnqueueTask and Publish return.
HighPublishReturn(h, reply) ==
    /\ hpub[h].pc = "enqueue"
    /\ hpub' = [hpub EXCEPT ![h].pc = "idle", ![h].reply = reply, ![h].err = WrapError(reply)]
    /\ UNCHANGED <<requests, busVars, ctorVars, userVars>>

\* ------------------------------------------------------------------ specifications
\* A publisher, the three subscriber loops and cancellation.
Next ==
    \/ \E rev \in Revisions, topic \in BusTopics, ptype \in PayloadTypes :
          calls < MaxCalls /\ PublishCall("p1", rev, topic, ptype, calls + 1)
    \/ PublishSend("p1")
    \/ PublishReturn("p1")
    \/ \E t \in Topics : LoopLock(t)
    \/ \E t \in Topics : LoopSubscribe(t)
    \/ \E t \in Topics : LoopReceive(t)
    \/ \E t \in Topics : LoopFinish(t)
    \/ \E t \in Topics : LoopStop(t)
    \/ Cancel

Spec == Init /\ [][Next]_vars

\* The topics the API callers of ApiSpec subscribe to and unsubscribe from:
\* one topic of the catalog and the string outside it.
ApiTopics == {UserCreatedInMemoryEvent, OtherTopic}

\* The channels API callers hold.
ClientChans == {x \in ChanIds : owner[x] \in Clients}

\* Two concurrent publishers against callers of the bus's Subscribe /
\* Unsubscribe API, on the topics those callers use.
NextApi ==
    \/ \E p \in Pubs, rev \in Revisions, topic \in ApiTopics, ptype \in PayloadTypes :
          calls < MaxApiCalls /\ PublishCall(p, rev, topic, ptype, calls + 1)
    \/ \E p \in Pubs : PublishSend(p)
    \/ \E p \in Pubs : PublishReturn(p)
    \/ \E c \in Clients, topic \in ApiTopics :
          Cardinality(ClientChans) < MaxClientSubs /\ ClientCallSubscribe(c, topic)
    \/ \E c \in Clients : ClientSubscribe(c)
    \/ \E c \in Clients, topic \in ApiTopics, ch \in ChanIds : ClientCallUnsubscribe(c, topic, ch)
    \/ \E c \in Clients : ClientUnsubscribe(c)
    \/ \E ch \in ChanIds : ClientReceive(ch)
    \/ \E ch \in ChanIds : ClientReceiveClosed(ch)

ApiSpec == Init /\ [][NextApi]_vars

\* A burst of valid publishes to one topic on which the loop and an API
\* caller (who subscribes once) each have an inbox.
BurstTopic == UserCreatedInMemoryEvent

NextBurst ==
    \/ \E rev \in Revisions :
          calls < MaxBurst /\ PublishCall("p1", rev, BurstTopic, DeclaredShape(BurstTopic), calls + 1)
    \/ PublishSend("p1")
    \/ PublishReturn("p1")
    \/ LoopLock(BurstTopic)
    \/ LoopSubscribe(BurstTopic)
    \/ LoopReceive(BurstTopic)
    \/ LoopFinish(BurstTopic)
    \/ \E c \in Clients : ClientChans = {} /\ ClientCallSubscribe(c, BurstTopic)
    \/ \E c \in Clients : ClientSubscribe(c)
    \/ \E ch \in ChanIds : ClientReceive(ch)

BurstSpec == Init /\ [][NextBurst]_vars

\* A producer that never stops publishing (untraced payloads, number 0) to
\* one topic, the three loops and cancellation.
LiveTopic == UserCreatedInMemoryEvent

NextLive ==
    \/ \E rev \in Revisions : PublishCall("p1", rev, LiveTopic, DeclaredShape(LiveTopic), 0)
    \/ PublishSend("p1")
    \/ PublishReturn("p1")
    \/ \E t \in Topics : LoopLock(t)
    \/ \E t \in Topics : LoopSubscribe(t)
    \/ \E t \in Topics : LoopReceive(t)
    \/ \E t \in Topics : LoopFinish(t)
    \/ \E t \in Topics : LoopStop(t)
    \/ Cancel

\* A running goroutine keeps running (WF); a select with several ready cases
\* picks one uniformly at random, so a case that is ready again and again is
\* taken in the end (SF on the ctx.Done() case).
Fairness ==
    /\ WF_vars(PublishSend("p1"))
    /\ WF_vars(PublishReturn("p1"))
    /\ \A t \in Topics : WF_vars(LoopLock(t))
    /\ \A t \in Topics : WF_vars(LoopSubscribe(t))
    /\ \A t \in Topics : WF_vars(LoopFinish(t))
    /\ \A t \in Topics : SF_vars(LoopStop(t))

FairSpec == Init /\ [][NextLive]_vars /\ Fairness

\* -------------------------------------------------------------- CreateUser
\* The emails that have a document in the collection.
Registered == {x[1] : x \in users}

\* Faulty variant of CreateUserResult: the enqueue error is returned.
CreateUserResultPropagate(err) == err

\* What CreateUser returns as its error once the user is saved: the error of
\* highPub.Publish is logged and nil is returned.
CreateUserResult(err) == "nil"

\* CreateUser failing with error e before or at the save: no user, the error.
CreateUserFail(u, e) ==
    svc' = [svc EXCEPT ![u] = [@ EXCEPT !.pc = "idle", !.out = "nil", !.err = e]]

\* CreateUser up to the check of the service's GetUserByEmail: the lookup
\* fails, finds the email, or finds nothing and the call goes on.
CreateUserCall(u, email, fault) ==
    /\ svc[u].pc = "idle"
    /\ ucalls' = ucalls + 1
    /\ LET call == [IdleCreator EXCEPT !.email = email, !.id = ucalls + 1]
       IN IF fault
          THEN svc' = [svc EXCEPT ![u] = [call EXCEPT !.out = "nil", !.err = "LookupFailed"]]
          ELSE IF email \in Registered
          THEN svc' = [svc EXCEPT ![u] = [call EXCEPT !.out = "nil", !.err = "ErrUserAlreadyExists"]]
          ELSE svc' = [svc EXCEPT ![u] = [call EXCEPT !.pc = "hashed"]]
    /\ UNCHANGED <<users, busVars, ctorVars, queueVars>>

\* The password hash and, inside repo.CreateUser, the repository's own
\* GetUserByEmail: either fails, the email is found, or the insert is next.
CreateUserCheck(u, fault) ==
    /\ svc[u].pc = "hashed"
    /\ IF fault
       THEN CreateUserFail(u, "SaveFailed")
       ELSE IF svc[u].email \in Registered
       THEN CreateUserFail(u, "ErrUserAlreadyExists")
       ELSE svc' = [svc EXCEPT ![u].pc = "inserting"]
    /\ UNCHANGED <<users, ucalls, busVars, ctorVars, queueVars>>

\* The outcomes of collection.InsertOne as repo.CreateUser sees them: the
\* document is stored; write error 11000; another error; stored, but the
\* returned id is not an ObjectID.
InsertResults == {"ok", "duplicate", "failed", "noid"}

\* InsertOne and the return of repo.CreateUser to CreateUser.
CreateUserInsert(u, result) ==
    /\ svc[u].pc = "inserting"
    /\ result = "duplicate" => svc[u].email \in Registered
    /\ users' = IF result \in {"ok", "noid"} THEN users \cup {<<svc[u].email, svc[u].id>>} ELSE users
    /\ IF result = "ok"
       THEN svc' = [svc EXCEPT ![u].pc = "persisted"]
       ELSE IF result = "duplicate"
       THEN CreateUserFail(u, "ErrUserAlreadyExists")
       ELSE CreateUserFail(u, "SaveFailed")
    /\ UNCHANGED <<ucalls, busVars, ctorVars, queueVars>>

\* highPub.Publish(ctx, SendWelcomeEmailTaskName, emailPayload) up to the
\* request to the asynq client.
CreateUserPublish(u) ==
    /\ svc[u].pc = "persisted"
    /\ requests' = Append(requests, NewTask(SendWelcomeEmailTaskName, svc[u].id))
    /\ svc' = [svc EXCEPT ![u].pc = "enqueued"]
    /\ UNCHANGED <<users, ucalls, hpub, busVars, ctorVars>>

\* The answer of the enqueue service and the return of CreateUser.
CreateUserReturn(u, reply) ==
    /\ svc[u].pc = "enqueued"
    /\ svc' = [svc EXCEPT ![u] = [@ EXCEPT !.pc = "idle", !.out = "created", !.reply = reply,
                                             !.err = CreateUserResult(WrapError(reply))]]
    /\ UNCHANGED <<users, ucalls, busVars, ctorVars, queueVars>>

\* Goroutines racing on NewInMemoryBus.
NextCtor ==
    \/ \E g \in Makers : ctor[g].n < MaxCtorCalls /\ CtorCheck(g)
    \/ \E g \in Makers : CtorCreate(g)
    \/ \E g \in Makers : CtorReturn(g)

CtorSpec == Init /\ [][NextCtor]_vars

\* The answers of the reliable-enqueue service.
Replies == {"ok", "rejected", "unreachable"}

\* Concurrent queue-tier publishers against a service that accepts or fails.
NextQueue ==
    \/ \E h \in HighPubs, taskType \in TaskNames \cup {OtherTask} :
          Len(requests) < MaxQueueCalls /\ HighPublishCall(h, taskType, Len(requests) + 1)
    \/ \E h \in HighPubs, reply \in Replies : HighPublishReturn(h, reply)

QueueSpec == Init /\ [][NextQueue]_vars

\* One loop that is cancelled while a producer goes on publishing numbered
\* payloads to its topic, and a caller of Unsubscribe that names any channel.
StopTopic == UserCreatedInMemoryEvent

NextStop ==
    \/ \E rev \in Revisions :
          calls < MaxStopCalls /\ PublishCall("p1", rev, StopTopic, DeclaredShape(StopTopic), calls + 1)
    \/ PublishSend("p1")
    \/ PublishReturn("p1")
    \/ LoopLock(StopTopic)
    \/ LoopSubscribe(StopTopic)
    \/ LoopReceive(StopTopic)
    \/ LoopFinish(StopTopic)
    \/ LoopStop(StopTopic)
    \/ Cancel
    \/ \E c \in Clients, ch \in ChanIds : ClientCallUnsubscribe(c, StopTopic, ch)
    \/ \E c \in Clients : ClientUnsubscribe(c)

StopSpec == Init /\ [][NextStop]_vars

\* One loop whose inbox a caller of Unsubscribe may close under it, a
\* producer that never stops publishing (untraced payloads), and cancellation.
CloseTopic == UserCreatedInMemoryEvent

NextClose ==
    \/ \E rev \in Revisions : PublishCall("p1", rev, CloseTopic, DeclaredShape(CloseTopic), 0)
    \/ PublishSend("p1")
    \/ PublishReturn("p1")
    \/ LoopLock(CloseTopic)
    \/ LoopSubscribe(CloseTopic)
    \/ LoopReceive(CloseTopic)
    \/ LoopFinish(CloseTopic)
    \/ LoopStop(CloseTopic)
    \/ Cancel
    \/ \E c \in Clients, ch \in ChanIds : ClientCallUnsubscribe(c, CloseTopic, ch)
    \/ \E c \in Clients : ClientUnsubscribe(c)

\* Running goroutines keep running and a pending Lock() is granted once the
\* readers are gone (WF); the ctx.Done() case of a select that is ready again
\* and again is taken in the end (SF).
CloseFairness ==
    /\ WF_vars(PublishSend("p1"))
    /\ WF_vars(PublishReturn("p1"))
    /\ WF_vars(LoopLock(CloseTopic))
    /\ WF_vars(LoopSubscribe(CloseTopic))
    /\ WF_vars(LoopFinish(CloseTopic))
    /\ SF_vars(LoopStop(CloseTopic))
    /\ \A c \in Clients : WF_vars(ClientUnsubscribe(c))

CloseSpec == Init /\ [][NextClose]_vars /\ CloseFairness

\* Concurrent requests that create users, against a repository and an
\* enqueue service that succeed or fail.
NextUser ==
    \/ \E u \in Creators, email \in Emails, fault \in BOOLEAN :
          ucalls < MaxCreateCalls /\ CreateUserCall(u, email, fault)
    \/ \E u \in Creators, fault \in BOOLEAN : CreateUserCheck(u, fault)
    \/ \E u \in Creators, result \in InsertResults : CreateUserInsert(u, result)
    \/ \E u \in Creators : CreateUserPublish(u)
    \/ \E u \in Creators, reply \in Replies : CreateUserReturn(u, reply)

UserSpec == Init /\ [][NextUser]_vars

\* Callers of the bus's PublishEvent that send payloads of any type to the
\* topic of one loop.
RawTopic == UserUpdatedInMemoryEvent

NextRaw ==
    \/ \E p \in Pubs, ptype \in PayloadTypes :
          calls < MaxRawCalls /\ BusPublishCall(p, RawTopic, ptype, calls + 1)
    \/ \E p \in Pubs : PublishSend(p)
    \/ \E p \in Pubs : PublishReturn(p)
    \/ LoopLock(RawTopic)
    \/ LoopSubscribe(RawTopic)
    \/ LoopReceive(RawTopic)
    \/ LoopFinish(RawTopic)

RawSpec == Init /\ [][NextRaw]_vars

\* Two loops: the side effect of HungTopic's loop never ends while a burst
\* of publishes fills its inbox; publishes to FreeTopic follow.
HungTopic == UserCreatedInMemoryEvent

FreeTopic == UserUpdatedInMemoryEvent

NextIndep ==
    \/ \E rev \in Revisions :
          /\ calls < MaxHungCalls
          /\ PublishCall("p1", rev, HungTopic, DeclaredShape(HungTopic), calls + 1)
    \/ \E rev \in Revisions :
          /\ calls >= MaxHungCalls
          /\ calls < MaxHungCalls + MaxFreeCalls
          /\ PublishCall("p1", rev, FreeTopic, DeclaredShape(FreeTopic), calls + 1)
    \/ PublishSend("p1")
    \/ PublishReturn("p1")
    \/ \E t \in {HungTopic, FreeTopic} : LoopLock(t)
    \/ \E t \in {HungTopic, FreeTopic} : LoopSubscribe(t)
    \/ \E t \in {HungTopic, FreeTopic} : LoopReceive(t)
    \/ LoopFinish(FreeTopic)

IndepSpec == Init /\ [][NextIndep]_vars

\* ------------------------------------------------------------------ claims
Rejections == {"InvalidPayloadType", "UnsupportedDestination"}

\* The inbox the next iteration of p's range loop sends to.
Target(p) == subscribers[pub[p].topic][pub[p].idx]

\* The ids of the payloads buffered in an inbox, oldest first.
BufIds(c) == [i \in 1 .. Len(chans[c].buf) |-> chans[c].buf[i].id]

\* The last n elements of s.
Suffix(s, n) == SubSeq(s, Len(s) - n + 1, Len(s))

\* C1: for every topic of the catalog and payload of its declared shape,
\* Publish is not rejected and returns nil, and when it returns every inbox
\* registered under the topic has accepted the payload exactly once, unless
\* the inbox was full when the fan-out reached it (then it is logged as dropped).
C1_ValidPublishDelivered ==
    [][ /\ \A p \in Pubs, rev \in Revisions, topic \in Topics :
              PublishCall(p, rev, topic, DeclaredShape(topic), calls + 1)
                  => pub'[p].err \notin Rejections
        /\ \A p \in Pubs : PublishReturn(p) =>
              /\ pub'[p].err = "nil"
              /\ \A c \in Range(subscribers[pub[p].topic]) :
                    Count(pub[p].payload.id, sent[c])
                        = (IF <<c, pub[p].payload.id>> \in dropped THEN 0 ELSE 1)
        /\ \A p \in Pubs : PublishSend(p) =>
              (<<Target(p), pub[p].payload.id>> \in dropped' => Len(chans[Target(p)].buf) = Cap)
      ]_vars

\* C2: for every topic of the catalog and payload of another type than its
\* declared shape, Publish returns InvalidPayloadType and changes nothing on
\* the bus: no inbox gains an item and no fan-out starts.
C2_MismatchRejected ==
    [][ \A p \in Pubs, rev \in Revisions, topic \in Topics :
          \A ptype \in PayloadTypes \ {DeclaredShape(topic)} :
              PublishCall(p, rev, topic, ptype, calls + 1)
                  => /\ pub'[p].err = "InvalidPayloadType"
                     /\ UNCHANGED <<subscribers, chans, readers, sent, dropped>>
      ]_vars

\* C3: Publish to a destination that is no topic of the catalog returns
\* UnsupportedDestination whatever the payload, and no inbox gains an item,
\* also when subscribers are registered on the bus under that string.
C3_UnknownDestinationRejected ==
    /\ [][ \A p \in Pubs, rev \in Revisions, ptype \in PayloadTypes :
             PublishCall(p, rev, OtherTopic, ptype, calls + 1)
                 => /\ pub'[p].err = "UnsupportedDestination"
                    /\ pub'[p].pc = "idle"
                    /\ UNCHANGED <<subscribers, chans, readers, sent, dropped>>
         ]_vars
    /\ [](\A c \in Range(subscribers[OtherTopic]) : sent[c] = <<>> /\ chans[c].buf = <<>>)

C3_Witness ==
    \E p \in Pubs :
        /\ pub[p].topic = OtherTopic
        /\ pub[p].err = "UnsupportedDestination"
        /\ subscribers[OtherTopic] # <<>>

\* C4: no inbox ever holds more than 10 items; a send to an inbox that holds
\* 10 items leaves the same 10 items in the same order, is logged as dropped
\* and lets the fan-out go on at once; the Publish returns nil.
C4_Backpressure ==
    /\ [](\A c \in ChanIds : Len(chans[c].buf) <= Cap)
    /\ [](\A p \in Pubs : pub[p].pc = "fanout" => ENABLED (PublishSend(p) \/ PublishReturn(p)))
    /\ [][ \A p \in Pubs :
             /\ (PublishSend(p) /\ Len(chans[Target(p)].buf) >= Cap)
                    => /\ chans' = chans
                       /\ dropped' = dropped \cup {<<Target(p), pub[p].payload.id>>}
                       /\ sent' = sent
                       /\ pub'[p].idx = pub[p].idx + 1
             /\ PublishReturn(p) => pub'[p].err = "nil"
         ]_vars

C4_Witness ==
    \E p \in Pubs, c \in ChanIds :
        /\ pub[p].pc = "idle"
        /\ pub[p].err = "nil"
        /\ <<c, pub[p].payload.id>> \in dropped
        /\ Len(chans[c].buf) = Cap
        /\ BufIds(c) = Suffix(sent[c], Cap)

\* C5: a send of the fan-out is accepted by an inbox exactly when that inbox
\* itself has room, whatever the state of the other inboxes of the topic; and
\* when the Publish returns every inbox of the topic has had its own attempt
\* (accepted once, or dropped because it was full itself).
C5_Isolation ==
    [][ /\ \A p \in Pubs : PublishSend(p) =>
              LET c == Target(p)
                  id == pub[p].payload.id
              IN IF Len(chans[c].buf) < Cap
                 THEN /\ chans'[c].buf = Append(chans[c].buf, pub[p].payload)
                      /\ sent'[c] = Append(sent[c], id)
                      /\ <<c, id>> \notin dropped'
                 ELSE /\ chans'[c] = chans[c]
                      /\ <<c, id>> \in dropped'
        /\ \A p \in Pubs : PublishSend(p) =>
              \A d \in ChanIds \ {Target(p)} : chans'[d] = chans[d] /\ sent'[d] = sent[d]
        /\ \A p \in Pubs : PublishReturn(p) =>
              \A c \in Range(subscribers[pub[p].topic]) :
                  \/ Count(pub[p].payload.id, sent[c]) = 1
                  \/ <<c, pub[p].payload.id>> \in dropped
      ]_vars

C5_Witness ==
    \E p \in Pubs : \E a, b \in Range(subscribers[BurstTopic]) :
        /\ a # b
        /\ pub[p].pc = "idle"
        /\ pub[p].err = "nil"
        /\ <<b, pub[p].payload.id>> \in dropped
        /\ <<a, pub[p].payload.id>> \notin dropped
        /\ Count(pub[p].payload.id, sent[a]) = 1

\* C6: in every inbox, payloads of two Publish calls of which the first had
\* returned before the second began were accepted in call order, and the
\* inbox hands out what it accepted in that same order (what is buffered is
\* the tail of what was accepted); drops leave this order untouched.
C6_FifoPerSubscriber ==
    \A c \in ChanIds :
        /\ \A i, j \in 1 .. Len(sent[c]) : i < j => <<sent[c][j], sent[c][i]>> \notin hb
        /\ Len(chans[c].buf) <= Len(sent[c])
        /\ BufIds(c) = Suffix(sent[c], Len(chans[c].buf))

C6_Witness ==
    \E c \in ChanIds : \E i, j \in 1 .. Len(sent[c]) :
        /\ i < j
        /\ <<sent[c][i], sent[c][j]>> \in hb
        /\ \E d \in 1 .. calls : sent[c][i] < d /\ d < sent[c][j] /\ <<c, d>> \in dropped
        /\ loop[BurstTopic].ch = c
        /\ loop[BurstTopic].data.id = sent[c][j]

\* C7: once the context is cancelled, a loop that is in Listening does not
\* start the side effect for another payload.
C7_NoSideEffectAfterCancel ==
    [][ \A t \in Topics :
          (ctxDone /\ loop[t].state = "Listening") => loop'[t].state # "Processing" ]_vars

\* C8: once the context is cancelled every subscriber loop eventually reaches
\* Stopped, also with a non-empty inbox and a producer that keeps publishing.
C8_LoopsStopAfterCancel ==
    \A t \in Topics : ctxDone ~> (loop[t].state = "Stopped")

C8_Witness ==
    /\ ctxDone
    /\ \A t \in Topics : loop[t].state = "Stopped"
    /\ chans[loop[LiveTopic].ch].buf # <<>>
    /\ pub["p1"].pc = "fanout"

\* C9: an Unsubscribe of an inbox that is already closed, or that is not
\* registered under the topic it names, changes neither the registry nor any
\* inbox, closes nothing a second time (no panic) and is never stuck once the
\* lock is free.
C9_UnsubscribeIdempotent ==
    /\ []~panicked
    /\ [](\A c \in Clients :
             (client[c].pc = "unsubscribe" /\ readers = {}) => ENABLED ClientUnsubscribe(c))
    /\ [][ \A c \in Clients :
             (/\ ClientUnsubscribe(c)
              /\ \/ chans[client[c].ch].closed
                 \/ client[c].ch \notin Range(subscribers[client[c].topic]))
                 => /\ UNCHANGED <<subscribers, chans, made, owner, sent, dropped>>
                    /\ client'[c].res = "absent"
         ]_vars

C9_Witness ==
    \E c \in Clients :
        /\ client[c].pc = "idle"
        /\ client[c].res = "absent"
        /\ chans[client[c].ch].closed
        /\ owner[client[c].ch] = c

\* C10: a fan-out in flight holds the read lock and never finds a closed inbox
\* in the registry (no send on a closed channel); the critical section of an
\* Unsubscribe runs only while no fan-out is in flight; and neither waits for
\* ever: a fan-out can always take its next step, an Unsubscribe can run as
\* soon as the readers are gone.
C10_PublishUnsubscribeRace ==
    /\ []~panicked
    /\ [](\A p \in Pubs : pub[p].pc = "fanout" =>
             /\ p \in readers
             /\ \A c \in Range(subscribers[pub[p].topic]) : ~chans[c].closed
             /\ ENABLED (PublishSend(p) \/ PublishReturn(p)))
    /\ [](\A c \in Clients : client[c].pc = "unsubscribe" =>
             \/ ENABLED ClientUnsubscribe(c)
             \/ \E p \in readers : pub[p].pc = "fanout")
    /\ [][ \A c \in Clients : ClientUnsubscribe(c) => \A p \in Pubs : pub[p].pc # "fanout" ]_vars

C10_Witness ==
    \E c \in Clients, p \in Pubs :
        /\ client[c].pc = "unsubscribe"
        /\ pub[p].pc = "fanout"
        /\ pub[p].topic = client[c].topic
        /\ IndexOf(subscribers[pub[p].topic], client[c].ch) \in 1 .. pub[p].idx - 1
        /\ pub[p].payload.id \in Range(sent[client[c].ch])

\* C11: an Unsubscribe of a registered inbox removes it from the registry
\* and closes it, keeping what it has buffered; a closed inbox is in no
\* registry and never accepts another item, its buffered items leave it only
\* in order, and its reader never blocks: it gets the buffered items and,
\* only once they are drained, end-of-stream.
C11_UnsubscribeClosesInbox ==
    /\ [](\A ch \in ChanIds : chans[ch].closed =>
             \A topic \in BusTopics : ch \notin Range(subscribers[topic]))
    /\ [](\A ch \in ChanIds :
             (chans[ch].closed /\ owner[ch] \in Clients /\ client[owner[ch]].pc = "idle")
                 => ENABLED (ClientReceive(ch) \/ ClientReceiveClosed(ch)))
    /\ [][ \A c \in Clients :
             (ClientUnsubscribe(c) /\ client[c].ch \in Range(subscribers[client[c].topic]))
                 => /\ client[c].ch \notin Range(subscribers'[client[c].topic])
                    /\ chans'[client[c].ch].closed
                    /\ chans'[client[c].ch].buf = chans[client[c].ch].buf
                    /\ client'[c].res = "removed"
         ]_vars
    /\ [][ \A ch \in ChanIds : chans[ch].closed =>
             /\ chans'[ch].closed
             /\ sent'[ch] = sent[ch]
             /\ chans'[ch].buf = chans[ch].buf \/ chans'[ch].buf = Tail(chans[ch].buf)
             /\ ClientReceiveClosed(ch) => chans[ch].buf = <<>>
         ]_vars

C11_Witness ==
    \E c \in Clients, p \in Pubs :
        /\ client[c].res = "eos"
        /\ chans[client[c].ch].closed
        /\ sent[client[c].ch] # <<>>
        /\ chans[client[c].ch].buf = <<>>
        /\ pub[p].pc = "idle" /\ pub[p].err = "nil"
        /\ pub[p].topic = client[c].topic
        /\ pub[p].payload.id \in Range(sent[client[c].ch])

\* C12: however many goroutines call NewInMemoryBus, and however their
\* calls overlap, at most one bus instance is created and every call returns
\* that same instance.
C12_SingletonBus ==
    /\ buses <= 1
    /\ \A g, h \in Makers : (ctor[g].ret # 0 /\ ctor[h].ret # 0) => ctor[g].ret = ctor[h].ret

\* The requests in flight or answered that carry the number of h's call.
RequestsOf(h) == {i \in 1 .. Len(requests) : requests[i].id = hpub[h].id}

\* C13: a queue-tier Publish sends exactly one enqueue request, carrying the
\* given task name, max_retry 3 and the queue "critical"; when the service
\* accepts it Publish returns nil; no request is ever sent a second time.
C13_EnqueueOnce ==
    /\ [][ \A h \in HighPubs, taskType \in TaskNames :
             HighPublishCall(h, taskType, Len(requests) + 1)
                 => /\ Len(requests') = Len(requests) + 1
                    /\ SubSeq(requests', 1, Len(requests)) = requests
                    /\ requests'[Len(requests')].type = taskType
                    /\ requests'[Len(requests')].maxRetry = 3
                    /\ requests'[Len(requests')].queue = "critical"
         ]_vars
    /\ [][ \A h \in HighPubs :
             HighPublishReturn(h, "ok")
                 => /\ hpub'[h].err = "nil"
                    /\ requests' = requests
                    /\ Cardinality(RequestsOf(h)) = 1
         ]_vars
    /\ [](\A i, j \in 1 .. Len(requests) : requests[i].id = requests[j].id => i = j)

C13_Witness ==
    \E h \in HighPubs :
        /\ hpub[h].pc = "idle"
        /\ hpub[h].taskType = SendWelcomeEmailTaskName
        /\ hpub[h].reply = "ok"
        /\ hpub[h].err = "nil"
        /\ Cardinality(RequestsOf(h)) = 1
        /\ Len(requests) >= 2

\* C14: a queue-tier Publish returns an error exactly when the service did
\* not accept the request: the error returned is EnqueueFailed for every
\* non-success answer and nil for success.
C14_EnqueueOutcomeReported ==
    /\ [][ \A h \in HighPubs, reply \in Replies :
             HighPublishReturn(h, reply)
                 => hpub'[h].err = (IF reply = "ok" THEN "nil" ELSE "EnqueueFailed")
         ]_vars
    /\ [](\A h \in HighPubs : hpub[h].reply # "none" =>
             ((hpub[h].err = "nil") <=> (hpub[h].reply = "ok")))

C14_Witness ==
    \E g, h \in HighPubs :
        /\ hpub[g].reply = "unreachable" /\ hpub[g].err = "EnqueueFailed"
        /\ hpub[h].reply = "ok" /\ hpub[h].err = "nil"

\* C15: a queue-tier Publish to a destination that is no task name of the
\* catalog returns UnsupportedDestination and sends no enqueue request.
C15_UnknownTaskRejected ==
    [][ \A h \in HighPubs :
          HighPublishCall(h, OtherTask, Len(requests) + 1)
              => /\ requests' = requests
                 /\ hpub'[h].err = "UnsupportedDestination"
      ]_vars

\* C16: a Publish of a valid payload to a topic of the catalog that has no
\* subscriber is accepted and returns nil, changes neither the registry nor
\* any inbox, and is not kept: an inbox registered later starts empty.
C16_NoSubscriberNoError ==
    /\ [][ \A p \in Pubs, rev \in Revisions, topic \in Topics :
             (PublishCall(p, rev, topic, DeclaredShape(topic), calls + 1)
              /\ subscribers[topic] = <<>>)
                 => /\ pub'[p].err \notin Rejections
                    /\ UNCHANGED <<subscribers, chans, sent, dropped>>
         ]_vars
    /\ [][ \A p \in Pubs :
             (PublishReturn(p) /\ subscribers[pub[p].topic] = <<>>)
                 => /\ pub'[p].err = "nil"
                    /\ UNCHANGED <<subscribers, chans, sent, dropped>>
         ]_vars
    /\ [][ \A t \in Topics :
             LoopSubscribe(t) => chans'[made + 1].buf = <<>> /\ sent'[made + 1] = <<>>
         ]_vars

\* C17: a fan-out that has started always has a next step, whatever the
\* inboxes hold and whatever the loops do; every step is one send attempt
\* that moves on to the next inbox; and under fair scheduling the fan-out
\* returns, also when the loops are stopped and their inboxes full.
C17_PublishNeverWaitsForConsumer ==
    /\ [](\A p \in Pubs : pub[p].pc = "fanout" => ENABLED (PublishSend(p) \/ PublishReturn(p)))
    /\ [][ \A p \in Pubs : PublishSend(p) =>
             /\ pub'[p].idx = pub[p].idx + 1
             /\ pub'[p].idx <= Len(subscribers[pub[p].topic]) + 1
         ]_vars
    /\ \A p \in Pubs : (pub[p].pc = "fanout") ~> (pub[p].pc = "idle" /\ pub[p].err = "nil")

C17_Witness ==
    /\ ctxDone
    /\ loop[LiveTopic].state = "Stopped"
    /\ Len(chans[loop[LiveTopic].ch].buf) = Cap
    /\ pub["p1"].pc = "fanout"
    /\ pub["p1"].idx = Len(subscribers[LiveTopic]) + 1

\* C18: cancellation does not interrupt a side effect: a loop in Processing
\* can always finish, leaves Processing only by finishing (back to
\* Listening), and Stopped is entered from Listening only; the cancellation
\* itself moves no loop.
C18_CooperativeCancel ==
    /\ [](\A t \in Topics : loop[t].state = "Processing" =>
             ENABLED LoopFinish(t) /\ ~ENABLED LoopStop(t))
    /\ [][ \A t \in Topics : loop[t].state = "Processing" =>
             \/ loop'[t] = loop[t]
             \/ LoopFinish(t) /\ loop'[t].state = "Listening"
         ]_vars
    /\ [][ \A t \in Topics : (loop'[t].state = "Stopped" /\ loop[t].state # "Stopped")
             => loop[t].state = "Listening" ]_vars
    /\ [][ Cancel => loop' = loop ]_vars

C18_Witness ==
    \E t \in Topics :
        /\ ctxDone
        /\ loop[t].state = "Processing"
        /\ loop[t].data.type = DeclaredShape(t)
        /\ chans[loop[t].ch].buf # <<>>

\* The transitions of a subscriber loop.
LoopTransitions ==
    {<<"Starting", "Listening">>, <<"Listening", "Processing">>,
     <<"Processing", "Listening">>, <<"Listening", "Stopped">>}

\* C19: a loop moves only along Starting -> Listening -> (Processing ->
\* Listening)* -> Stopped; it subscribes once, in Starting, and keeps that
\* inbox; it enters Stopped only when the context is cancelled; and once
\* Stopped it never changes again nor takes anything out of its inbox.
C19_LoopStateMachine ==
    /\ [][ \A t \in Topics : loop'[t].state # loop[t].state =>
             /\ <<loop[t].state, loop'[t].state>> \in LoopTransitions
             /\ loop'[t].state = "Stopped" => ctxDone
             /\ LoopSubscribe(t) <=> loop[t].state = "Starting"
         ]_vars
    /\ [][ \A t \in Topics : loop[t].state # "Starting" => loop'[t].ch = loop[t].ch ]_vars
    /\ [][ \A t \in Topics : loop[t].state = "Stopped" =>
             /\ loop'[t] = loop[t]
             /\ Len(chans'[loop[t].ch].buf) >= Len(chans[loop[t].ch].buf)
             /\ SubSeq(chans'[loop[t].ch].buf, 1, Len(chans[loop[t].ch].buf)) = chans[loop[t].ch].buf
         ]_vars
    /\ [](\A t \in Topics :
             /\ {c \in ChanIds : owner[c] = t}
                    = (IF loop[t].state = "Starting" THEN {} ELSE {loop[t].ch})
             /\ loop[t].state # "Starting" => subscribers[t] = <<loop[t].ch>>)

C19_Witness ==
    \E t \in Topics :
        /\ loop[t].state = "Stopped"
        /\ Len(sent[loop[t].ch]) = 2
        /\ Len(chans[loop[t].ch].buf) = 1
        /\ pub["p1"].pc = "idle"

\* C20: a loop that dequeues a payload of another type than the shape of
\* its topic drops it and stays in Listening without running the side
\* effect; the side effect only ever runs on a payload of the right shape;
\* the loop neither stops nor panics, and goes on to dequeue what follows.
C20_MalformedPayloadDiscarded ==
    /\ [][ \A t \in Topics :
             (LoopReceive(t) /\ chans[loop[t].ch].buf # <<>>) =>
                 LET eventData == Head(chans[loop[t].ch].buf)
                 IN /\ chans'[loop[t].ch].buf = Tail(chans[loop[t].ch].buf)
                    /\ IF eventData.type = DeclaredShape(t)
                       THEN loop'[t].state = "Processing" /\ loop'[t].data = eventData
                       ELSE loop'[t] = loop[t]
         ]_vars
    /\ [](\A t \in Topics :
             /\ loop[t].state = "Processing" => loop[t].data.type = DeclaredShape(t)
             /\ loop[t].state # "Stopped"
             /\ (loop[t].state = "Listening" /\ chans[loop[t].ch].buf # <<>>)
                    => ENABLED LoopReceive(t))
    /\ []~panicked

C20_Witness ==
    /\ loop[RawTopic].state = "Processing"
    /\ \E p, q \in Pubs : \E i, j \in 1 .. Len(sent[loop[RawTopic].ch]) :
          /\ i < j
          /\ pub[p].payload.type # DeclaredShape(RawTopic)
          /\ pub[q].payload.type = DeclaredShape(RawTopic)
          /\ sent[loop[RawTopic].ch][i] = pub[p].payload.id
          /\ sent[loop[RawTopic].ch][j] = pub[q].payload.id
          /\ loop[RawTopic].data = pub[q].payload

\* C21: the loops of different topics do not hold each other up: a send to
\* the inbox of one topic is accepted whenever that inbox has room, whatever
\* the state of the other loops and the fill of their inboxes; a loop with a
\* payload in its inbox can always dequeue it and a loop in its side effect
\* can always finish it; and a step of one loop changes no other loop and no
\* other loop's inbox.
C21_LoopsIndependent ==
    /\ [][ \A p \in Pubs : (PublishSend(p) /\ pub[p].topic = FreeTopic) =>
             LET c == Target(p)
             IN IF Len(chans[c].buf) < Cap
                THEN chans'[c].buf = Append(chans[c].buf, pub[p].payload)
                ELSE chans'[c] = chans[c]
         ]_vars
    /\ [](\A t \in Topics :
             /\ (loop[t].state = "Listening" /\ chans[loop[t].ch].buf # <<>>)
                    => ENABLED LoopReceive(t)
             /\ loop[t].state = "Processing" => ENABLED LoopFinish(t))
    /\ [][ \A t \in Topics : (LoopReceive(t) \/ LoopFinish(t)) =>
             \A u \in Topics \ {t} :
                 /\ loop'[u] = loop[u]
                 /\ loop[u].state # "Starting" => chans'[loop[u].ch] = chans[loop[u].ch]
         ]_vars

C21_Witness ==
    /\ loop[HungTopic].state = "Processing"
    /\ loop[FreeTopic].state = "Processing"
    /\ Len(chans[loop[HungTopic].ch].buf) = Cap
    /\ loop[FreeTopic].data.id > MaxHungCalls

\* C22: Subscribe hands out a channel nobody held before, empty and open,
\* and appends it to the slice of its topic; the slices of the other topics,
\* the earlier entries of this slice, and every existing inbox stay as they
\* were; nothing published earlier is in the new inbox; and the inbox never
\* holds more than 10 items.
C22_SubscribeFrame ==
    /\ [][ \A c \in Clients : ClientSubscribe(c) =>
             LET topic == client[c].topic
                 ch == client'[c].ch
             IN /\ owner[ch] = "none" /\ owner'[ch] = c
                /\ \A t \in BusTopics : ch \notin Range(subscribers[t])
                /\ chans'[ch] = [buf |-> <<>>, closed |-> FALSE]
                /\ sent'[ch] = <<>>
                /\ subscribers'[topic] = Append(subscribers[topic], ch)
                /\ \A t \in BusTopics \ {topic} : subscribers'[t] = subscribers[t]
                /\ chans' = chans
                /\ client'[c].res = "subscribed"
         ]_vars
    /\ [](\A ch \in ChanIds : Len(chans[ch].buf) <= Cap)

C22_Witness ==
    \E c \in Clients, p \in Pubs :
        /\ client[c].pc = "idle"
        /\ client[c].res = "subscribed"
        /\ Len(subscribers[client[c].topic]) = 2
        /\ subscribers[client[c].topic][2] = client[c].ch
        /\ pub[p].pc = "idle" /\ pub[p].err = "nil" /\ pub[p].topic = client[c].topic
        /\ sent[subscribers[client[c].topic][1]] = <<pub[p].payload.id>>
        /\ sent[client[c].ch] = <<>>

\* The positions of requests that carry the welcome task of user number id.
WelcomeTasksOf(id) == {i \in 1 .. Len(requests) : requests[i].id = id}

\* C23: CreateUser sends the welcome-email task to the queue tier at most
\* once per call and only once the user is saved; a call that finds the
\* email taken or whose save fails sends none; and whatever the enqueue
\* service answers, CreateUser returns the created user and no error.
C23_WelcomeTaskAfterPersist ==
    /\ [][ requests' # requests =>
             \E u \in Creators :
                 /\ CreateUserPublish(u)
                 /\ <<svc[u].email, svc[u].id>> \in users
                 /\ WelcomeTasksOf(svc[u].id) = {}
                 /\ requests' = Append(requests, NewTask(SendWelcomeEmailTaskName, svc[u].id))
         ]_vars
    /\ [][ \A u \in Creators, reply \in Replies : CreateUserReturn(u, reply) =>
             /\ svc'[u].out = "created"
             /\ svc'[u].err = "nil"
             /\ Cardinality(WelcomeTasksOf(svc[u].id)) = 1
         ]_vars
    /\ [](\A id \in 1 .. ucalls : Cardinality(WelcomeTasksOf(id)) <= 1)
    /\ [](\A u \in Creators :
             svc[u].pc = "idle" /\ svc[u].out = "nil" =>
                 /\ svc[u].err \in {"LookupFailed", "ErrUserAlreadyExists", "SaveFailed"}
                 /\ WelcomeTasksOf(svc[u].id) = {})

C23_Witness ==
    \E u, v \in Creators :
        /\ svc[u].pc = "idle" /\ svc[u].out = "created" /\ svc[u].err = "nil"
        /\ svc[u].reply = "unreachable"
        /\ Cardinality(WelcomeTasksOf(svc[u].id)) = 1
        /\ svc[v].pc = "idle" /\ svc[v].out = "nil" /\ svc[v].err = "ErrUserAlreadyExists"
        /\ svc[v].email = svc[u].email
        /\ Len(requests) = 1

\* The topics under which channel ch is registered.
TopicsOf(ch) == {t \in BusTopics : ch \in Range(subscribers[t])}

\* C24: whatever the interleaving of Subscribe, Unsubscribe and Publish,
\* every inbox in the registry is open, a closed inbox is in no registry,
\* and an inbox is registered at most once and under one topic only.
C24_RegistryInvariant ==
    /\ \A t \in BusTopics : \A i \in 1 .. Len(subscribers[t]) : ~chans[subscribers[t][i]].closed
    /\ \A ch \in ChanIds : chans[ch].closed => TopicsOf(ch) = {}
    /\ \A t \in BusTopics : \A i, j \in 1 .. Len(subscribers[t]) :
           subscribers[t][i] = subscribers[t][j] => i = j
    /\ \A ch \in ChanIds : Cardinality(TopicsOf(ch)) <= 1
    /\ \A ch \in 1 .. made : ~chans[ch].closed => Cardinality(TopicsOf(ch)) = 1

C24_Witness ==
    \E a, b \in ChanIds, p \in Pubs :
        /\ chans[a].closed /\ TopicsOf(a) = {}
        /\ ~chans[b].closed /\ TopicsOf(b) = {pub[p].topic}
        /\ pub[p].pc = "idle" /\ pub[p].err = "nil"
        /\ sent[a] = <<>>
        /\ sent[b] = <<pub[p].payload.id>>

\* subs without every occurrence of ch, the rest in their order.
Without(subs, ch) == SelectSeq(subs, LAMBDA x : x # ch)

IsPrefix(s, t) == Len(s) <= Len(t) /\ SubSeq(t, 1, Len(s)) = s

\* C26: a step of a Publish to topic T leaves the registry as it is, leaves
\* every inbox that is not registered under T as it is, and removes or
\* overwrites no item buffered in any inbox: what was buffered is the
\* initial part of what is buffered afterwards.
C26_PublishFrame ==
    [][ \A p \in Pubs : pub'[p] # pub[p] =>
          /\ subscribers' = subscribers
          /\ \A ch \in ChanIds :
                 ch \notin Range(subscribers[pub'[p].topic]) => chans'[ch] = chans[ch]
          /\ \A ch \in ChanIds :
                 /\ IsPrefix(chans[ch].buf, chans'[ch].buf)
                 /\ Len(chans'[ch].buf) <= Len(chans[ch].buf) + 1
                 /\ chans'[ch].closed = chans[ch].closed
      ]_vars

C26_Witness ==
    \E p \in Pubs, t \in Topics :
        /\ pub[p].pc = "idle" /\ pub[p].err = "nil"
        /\ pub[p].topic # t
        /\ pub[p].payload.id = 2
        /\ loop[t].state = "Listening"
        /\ Len(chans[loop[t].ch].buf) = 1
        /\ chans[loop[t].ch].buf[1].id = 1
        /\ loop[pub[p].topic].state # "Starting"
        /\ sent[loop[pub[p].topic].ch] = <<2>>

\* C27: each of the three topics a subscriber loop listens on is accepted
\* by Publish with the payload shape declared for it: the call is never
\* answered with an error, and when it returns the payload has been sent to
\* the inbox of the topic's loop, if that loop had registered one.
C27_SupervisedTopicsAccepted ==
    /\ [](\A p \in Pubs, t \in Topics :
             pub[p].topic = t => pub[p].err # "UnsupportedDestination")
    /\ [][ \A p \in Pubs, t \in Topics :
             pub'[p] # pub[p] /\ pub'[p].topic = t /\ pub'[p].payload.type = DeclaredShape(t)
                 => pub'[p].err \in {"pending", "nil"}
         ]_vars
    /\ [][ \A p \in Pubs, t \in Topics :
             (PublishReturn(p) /\ pub[p].topic = t /\ loop[t].state # "Starting")
                 => \/ pub[p].payload.id \in Range(sent[loop[t].ch])
                    \/ <<loop[t].ch, pub[p].payload.id>> \in dropped
         ]_vars

\* C28: StartAllSubscribers has returned in every state (the loops are
\* started goroutines from the initial state on), so each of the three
\* topics has the inbox of its loop registered, and a valid Publish that
\* returns before cancellation has sent its payload to that inbox, which
\* took it unless it was full.
C28_RegisteredOnReturn ==
    /\ [](\A t \in Topics, p \in Pubs :
             (pub[p].pc = "fanout" /\ pub[p].topic = t /\ ~ctxDone)
                 => \E c \in Range(subscribers[t]) : owner[c] = t)
    /\ [][ \A p \in Pubs, t \in Topics :
             (PublishReturn(p) /\ pub[p].topic = t /\ ~ctxDone)
                 => \E c \in Range(subscribers[t]) :
                        /\ owner[c] = t
                        /\ \/ pub[p].payload.id \in Range(sent[c])
                           \/ <<c, pub[p].payload.id>> \in dropped
         ]_vars

\* C29: a subscriber loop never removes its own subscription.  No step of a
\* loop takes an entry out of the registry or closes an inbox, and past its
\* own Subscribe a loop does not change the registry at all; the inbox of a
\* stopped loop stays registered and open unless an Unsubscribe removes it,
\* nothing takes items out of it, a send to it is buffered while it holds
\* fewer than 10 items and dropped once it holds 10; and the subscriptions
\* of a topic become fewer only in a step of Unsubscribe.
C29_StoppedLoopStaysSubscribed ==
    /\ [][ \A t \in Topics : loop'[t] # loop[t] =>
             /\ \A u \in BusTopics : IsPrefix(subscribers[u], subscribers'[u])
             /\ loop[t].state # "Starting" => subscribers' = subscribers
             /\ \A ch \in ChanIds : chans'[ch].closed = chans[ch].closed
         ]_vars
    /\ [][ \A t \in BusTopics : Len(subscribers'[t]) < Len(subscribers[t]) =>
             \E c \in Clients : ClientUnsubscribe(c) /\ client[c].topic = t
         ]_vars
    /\ [][ \A t \in Topics :
             (loop[t].state = "Stopped" /\ loop[t].ch \in Range(subscribers[t])) =>
                 /\ loop'[t].state = "Stopped"
                 /\ IsPrefix(chans[loop[t].ch].buf, chans'[loop[t].ch].buf)
                 /\ (\A c \in Clients : ~ClientUnsubscribe(c)) =>
                        /\ loop[t].ch \in Range(subscribers'[t])
                        /\ ~chans'[loop[t].ch].closed
         ]_vars
    /\ [][ \A p \in Pubs :
             (PublishSend(p) /\ pub[p].topic \in Topics
                /\ loop[pub[p].topic].state = "Stopped" /\ Target(p) = loop[pub[p].topic].ch) =>
                 LET ch == loop[pub[p].topic].ch
                 IN IF Len(chans[ch].buf) < Cap
                    THEN /\ chans'[ch].buf = Append(chans[ch].buf, pub[p].payload)
                         /\ <<ch, pub[p].payload.id>> \notin dropped'
                    ELSE /\ chans'[ch] = chans[ch]
                         /\ <<ch, pub[p].payload.id>> \in dropped'
         ]_vars

C29_Witness ==
    /\ ctxDone
    /\ loop[StopTopic].state = "Stopped"
    /\ subscribers[StopTopic] = <<loop[StopTopic].ch>>
    /\ ~chans[loop[StopTopic].ch].closed
    /\ Len(chans[loop[StopTopic].ch].buf) = Cap
    /\ <<loop[StopTopic].ch, calls>> \in dropped
    /\ pub["p1"].pc = "idle" /\ pub["p1"].err = "nil"

\* C30: a loop whose inbox an Unsubscribe has closed gets end-of-stream from
\* it and goes back to its select without running the side effect; nothing
\* panics; the loop does not stop because of the closed inbox, only because
\* of cancellation; and once the context is cancelled it does reach Stopped.
C30_ClosedInboxLoop ==
    /\ [][ \A t \in Topics :
             (LoopReceive(t) /\ chans[loop[t].ch].closed /\ chans[loop[t].ch].buf = <<>>)
                 => loop'[t] = loop[t] /\ loop[t].state = "Listening"
         ]_vars
    /\ [](\A t \in Topics : loop[t].state = "Processing" => loop[t].data.type = DeclaredShape(t))
    /\ [](~panicked)
    /\ [](\A t \in Topics : loop[t].state = "Stopped" => ctxDone)
    /\ [](\A t \in Topics :
             (loop[t].state = "Listening" /\ chans[loop[t].ch].closed)
                 => ENABLED LoopReceive(t))
    /\ (ctxDone ~> loop[CloseTopic].state = "Stopped")

C30_Witness ==
    \E c \in Clients :
        /\ loop[CloseTopic].state = "Stopped"
        /\ chans[loop[CloseTopic].ch].closed
        /\ chans[loop[CloseTopic].ch].buf = <<>>
        /\ subscribers[CloseTopic] = <<>>
        /\ client[c].pc = "idle" /\ client[c].res = "removed"
        /\ client[c].ch = loop[CloseTopic].ch

====
